---- MODULE Spec2Model ----
(***************************************************************************)
(* Evidence vault of the CUI inspector: content-addressed object store     *)
(* (repo.py), relational catalog (db.py), vault service (inspector.py,     *)
(* evidence.py) and tenant / access gate (auth.py, tenants.py,             *)
(* ui_pages.py).  app.py holds an older single-file snapshot of the same   *)
(* logic; it does not compile (line 589 and line 2174), so the modules     *)
(* are the program that is modelled here.                                  *)
(*                                                                         *)
(* Abstractions: timestamps (now_iso) are dropped; SHA-256 is an injective *)
(* function of the bytes; AUTOINCREMENT ids are the 1-based position of a  *)
(* row in its table (no table ever deletes a row).                         *)
(***************************************************************************)
EXTENDS Integers, Sequences, FiniteSets, TLC

\* ------------------------------------------------------------------ bounds
MaxInspections == 3
MaxAudit == 4
MaxApiCalls == 1
MaxVerified == 2
MaxUsers == 4
MaxPhrases == 2
MaxMatches == 1

\* Python's None for ids (row ids start at 1).
None == 0

\* ------------------------------------------------------------------ inputs
\* A byte string: what kind of content it is and what tells two contents of
\* that kind apart (name, body, and the run whose timestamp is inside it).
Bytes(kind, name, body, run) ==
    [kind |-> kind, name |-> name, body |-> body, run |-> run]

\* Uploaded file contents.
FileBytes == {Bytes("file", "", b, 0) : b \in {"A", "B"}}

\* Uploaded file names with the logical name _logical gives them.
Filenames == {"Plan.TXT", "plan.txt"}

\* Text pasted into the manual box ("" is the empty box).
ManualTexts == {"", "pasted"}

\* inspector.py render_cui_inspector: default of the manual "Name" field.
manual_name == "manual_input.txt"

\* Settings of the toggles of the inspector page ("Auto-save evidence",
\* "Enable search index") together with whether the PDF report can be
\* generated: the defaults of the page (value=True).
Toggles == {[autosave |-> TRUE, pdf_ok |-> TRUE, store_index |-> TRUE]}

\* Bytes an altered object may hold: never the bytes of an uploaded file or
\* of a generated evidence file.
Garbage == {Bytes("garbage", "", "", 0)}

\* ------------------------------------------------------------ pure helpers
Max(S) == CHOOSE x \in S : \A y \in S : y <= x

Min(S) == CHOOSE x \in S : \A y \in S : x <= y

\* inspector.py _logical: basename, whitespace collapsed, stripped, lowered.
_logical(filename) ==
    CASE filename = "Plan.TXT"  -> "plan.txt"
      [] filename = ""          -> "document"
      [] OTHER                  -> filename

\* repo.py sha256_bytes: collision-free digest of the bytes.
sha256_bytes(b) == <<"sha256", b>>

\* repo.py _path_for, relative to REPO_DIR: objects/<sha[:2]>/<sha>.
_path_for(sha) == <<"objects", sha>>

\* A store that writes the bytes whenever it is given them.
write_object_always(objs, data) ==
    LET p == _path_for(sha256_bytes(data))
    IN [q \in DOMAIN objs \cup {p} |-> IF q = p THEN data ELSE objs[q]]

\* repo.py write_object: write the bytes unless the path exists already.
write_object(objs, data) ==
    LET p == _path_for(sha256_bytes(data))
    IN IF p \in DOMAIN objs THEN objs ELSE objs @@ (p :> data)

\* repo.py verify_object: (ok, actual); a missing object gives (False, None).
verify_object_exists_only(objs, relpath, expected_sha) ==
    IF relpath \notin DOMAIN objs
    THEN [ok |-> FALSE, actual |-> <<>>]
    ELSE [ok |-> TRUE, actual |-> sha256_bytes(objs[relpath])]

verify_object(objs, relpath, expected_sha) ==
    IF relpath \notin DOMAIN objs
    THEN [ok |-> FALSE, actual |-> <<>>]
    ELSE LET actual == sha256_bytes(objs[relpath])
         IN [ok |-> (actual = expected_sha), actual |-> actual]

\* ------------------------------------------------------------------- state
VARIABLES
    tenants,                \* table tenants: rows [name, is_active]
    users,                  \* table users: rows [tenant_id, username, role, is_active]
    auth_user,              \* st.session_state["auth_user"]
    tenant_id,              \* st.session_state["tenant_id"]
    objects,                \* object store: relpath -> bytes of the file
    artifacts,              \* table artifacts
    artifact_versions,      \* table artifact_versions
    inspections,            \* table inspections
    evidence_files,         \* table evidence_files
    inspection_text_index,  \* table inspection_text_index
    audit_events,           \* table audit_events
    out,                    \* what the last run of the script or call showed
    corrupted,              \* history: relpaths whose bytes were altered
    api_calls,              \* history: number of direct calls made so far
    calls                   \* upsert_artifact_version calls in flight, by thread

vars == <<tenants, users, auth_user, tenant_id, objects, artifacts,
          artifact_versions, inspections, evidence_files,
          inspection_text_index, audit_events, out, corrupted, api_calls,
          calls>>

catalog == <<artifacts, artifact_versions, inspections, evidence_files,
             inspection_text_index>>

\* The session without a signed-in user (auth.py role() is "" then).
NoUser == [id |-> None, username |-> "", role |-> "", tenant_id |-> None]

\* auth.py can_cross_tenant = is_superadmin() or is_auditor().
can_cross_tenant(u) == u.role \in {"superadmin", "auditor"}

\* The vault as one value: the object store and the catalog tables.
Vault == [objects |-> objects, artifacts |-> artifacts,
          artifact_versions |-> artifact_versions,
          inspections |-> inspections, evidence_files |-> evidence_files,
          inspection_text_index |-> inspection_text_index,
          audit_events |-> audit_events]

\* ------------------------------------------------- vault service operations
\* Id of the artifact row of (tid, logical), None when there is none.
ArtifactId_any_tenant(arts, tid, logical) ==
    LET hit == {i \in DOMAIN arts : arts[i].logical_name = logical}
    IN IF hit = {} THEN None ELSE Min(hit)

ArtifactId(arts, tid, logical) ==
    LET hit == {i \in DOMAIN arts : arts[i].tenant_id = tid /\ arts[i].logical_name = logical}
    IN IF hit = {} THEN None ELSE Min(hit)

\* SELECT ... FROM artifact_versions WHERE tenant_id=? AND artifact_id=?
\* ORDER BY version_int DESC LIMIT 1: id of that row, None when no row.
LatestVersionId(avs, tid, artifact_id) ==
    LET hit == {i \in DOMAIN avs : avs[i].tenant_id = tid /\ avs[i].artifact_id = artifact_id}
    IN IF hit = {} THEN None
       ELSE CHOOSE i \in hit : \A j \in hit : avs[j].version_int <= avs[i].version_int

\* inspector.py upsert_artifact_version, "if last and last["sha256"] == sha":
\* the upload is the content of the latest version (last is its id).
same_as_latest_never(avs, last, sha) == FALSE

same_as_latest_any_content(avs, last, sha) == last # None

same_as_latest(avs, last, sha) == last # None /\ avs[last].sha256 = sha

\* inspector.py upsert_artifact_version, "next_ver = 1 if not last else
\* int(last["version_int"]) + 1".
next_version_by_row_count(avs, last) == Len(avs) + 1

next_version(avs, last) ==
    IF last = None THEN 1 ELSE avs[last].version_int + 1

\* inspector.py upsert_artifact_version: the vault after the call and the
\* version id it returns.
upsert_artifact_version(V, tid, filename, data) ==
    LET logical == _logical(filename)
        sha     == sha256_bytes(data)
        rel     == _path_for(sha)
        objs    == write_object(V.objects, data)
        found   == ArtifactId(V.artifacts, tid, logical)
        arts    == IF found # None THEN V.artifacts
                   ELSE Append(V.artifacts, [tenant_id |-> tid, logical_name |-> logical])
        artifact_id == ArtifactId(arts, tid, logical)
        last    == LatestVersionId(V.artifact_versions, tid, artifact_id)
        next_ver == next_version(V.artifact_versions, last)
        row     == [tenant_id |-> tid, artifact_id |-> artifact_id,
                    version_int |-> next_ver, original_filename |-> filename,
                    object_relpath |-> rel, sha256 |-> sha]
    IN IF same_as_latest(V.artifact_versions, last, sha)
       THEN [vault |-> [V EXCEPT !.objects = objs, !.artifacts = arts],
             ret   |-> last]
       ELSE [vault |-> [V EXCEPT !.objects = objs, !.artifacts = arts,
                                 !.artifact_versions = Append(@, row)],
             ret   |-> Len(V.artifact_versions) + 1]

\* A save that keeps one inspection per artifact version (INSERT OR REPLACE
\* keyed by the version) instead of appending.
save_inspection_record_replacing(V, tid, artifact_version_id, run_type, findings) ==
    LET row  == [tenant_id |-> tid,
                 artifact_version_id |-> artifact_version_id,
                 run_type |-> run_type,
                 filename |-> findings.filename,
                 inspected |-> findings.inspected]
        same == {i \in DOMAIN V.inspections :
                    /\ artifact_version_id # None
                    /\ V.inspections[i].artifact_version_id = artifact_version_id}
    IN IF same = {}
       THEN [vault |-> [V EXCEPT !.inspections = Append(@, row)],
             ret   |-> Len(V.inspections) + 1]
       ELSE [vault |-> [V EXCEPT !.inspections[Max(same)] = row],
             ret   |-> Max(same)]

\* inspector.py save_inspection_record.  summary_json is json.dumps(findings);
\* of the findings the row keeps the file name and what was analysed.
save_inspection_record(V, tid, artifact_version_id, run_type, findings) ==
    [vault |-> [V EXCEPT !.inspections = Append(@,
                   [tenant_id |-> tid,
                    artifact_version_id |-> artifact_version_id,
                    run_type |-> run_type,
                    filename |-> findings.filename,
                    inspected |-> findings.inspected])],
     ret   |-> Len(V.inspections) + 1]

\* inspector.py attach_evidence_file: no check of the inspection's tenant.
attach_evidence_file(V, tid, inspection_id, kind, data) ==
    LET sha == sha256_bytes(data)
    IN [V EXCEPT !.objects = write_object(@, data),
                 !.evidence_files = Append(@,
                     [tenant_id |-> tid, inspection_id |-> inspection_id,
                      kind |-> kind, object_relpath |-> _path_for(sha),
                      sha256 |-> sha])]

\* inspector.py save_text_index.
save_text_index(V, tid, inspection_id, artifact_version_id, filename) ==
    [V EXCEPT !.inspection_text_index = Append(@,
        [tenant_id |-> tid, inspection_id |-> inspection_id,
         artifact_version_id |-> artifact_version_id, filename |-> filename])]

\* auth.py audit: the row carries the session's tenant and user.
audit(V, u, tid, event_type) ==
    [V EXCEPT !.audit_events = Append(@,
        [tenant_id |-> tid, user_id |-> u.id, event_type |-> event_type])]

\* legacy_components CUIInspector.inspect_file / inspect_text: the findings of
\* a run are a function of the name and of the content that was analysed.
Findings(filename, content) == [filename |-> filename, inspected |-> content]

\* json.dumps(findings, indent=2).encode("utf-8"): the findings hold the
\* run's timestamp, so two runs never give the same bytes.
findings_json(findings, run) ==
    Bytes("findings_json", findings.filename, findings.inspected.body, run)

\* CUIInspector.generate_cui_report_pdf(findings).
report_pdf(findings, run) ==
    Bytes("report_pdf", findings.filename, findings.inspected.body, run)

\* ------------------------------------------------------ tenant / access gate
\* Position of a tenant name in ORDER BY name.
NameRank(name) ==
    CASE name = "acme"    -> 1
      [] name = "default" -> 2
      [] OTHER            -> 3

ActiveTenantIds(tns) == {i \in DOMAIN tns : tns[i].is_active = 1}

\* tenants.py ensure_default_tenant: the tenants table after the call and
\* the id it returns (the lowest active id, created when there is none).
ensure_default_tenant(tns) ==
    IF ActiveTenantIds(tns) # {}
    THEN [tenants |-> tns, ret |-> Min(ActiveTenantIds(tns))]
    ELSE [tenants |-> Append(tns, [name |-> "default", is_active |-> 1]),
          ret     |-> Len(tns) + 1]

\* First option of the tenant selectbox: list_tenants orders by name.
FirstByName(tns) ==
    CHOOSE i \in ActiveTenantIds(tns) :
        \A j \in ActiveTenantIds(tns) : NameRank(tns[i].name) <= NameRank(tns[j].name)

\* What the user may pick in the selectbox (None: the widget is left as it
\* is shown, which is all a user who cannot cross tenants can do).
Choices(u, tns) ==
    IF can_cross_tenant(u) THEN ActiveTenantIds(ensure_default_tenant(tns).tenants)
    ELSE {None}

\* tenants.py render_tenant_selector_sidebar: the session's tenant id after
\* the sidebar has run.
render_tenant_selector_sidebar(u, tid, tns, choice) ==
    LET tns1 == ensure_default_tenant(tns).tenants
    IN IF can_cross_tenant(u)
       THEN LET cur == IF tid \in ActiveTenantIds(tns1) THEN tid ELSE FirstByName(tns1)
            IN IF choice = None THEN cur ELSE choice
       ELSE IF tid = None THEN ensure_default_tenant(tns1).ret
            ELSE tid

\* What a run of the script or a direct call showed or returned.  Kept are
\* the error shown, the tables of the evidence vault page and the report of
\* a verification; every other run leaves the empty output.
Out(kind, tid, rows, files, problems, checked) ==
    [kind |-> kind, tid |-> tid, rows |-> rows, files |-> files,
     problems |-> problems, checked |-> checked, seen |-> corrupted]

\* Writes the vault value back to the state.
Commit(V) ==
    /\ objects' = V.objects
    /\ artifacts' = V.artifacts
    /\ artifact_versions' = V.artifact_versions
    /\ inspections' = V.inspections
    /\ evidence_files' = V.evidence_files
    /\ inspection_text_index' = V.inspection_text_index
    /\ audit_events' = V.audit_events

LoggedIn == auth_user # NoUser

\* A row of table users as an INSERT leaves it: active, never signed in.
\* password_hash is pbkdf2_hash with a fresh salt: salt names the moment the
\* hash was made (0: before the run began).
UserRow(tid, username, role, salt) ==
    [tenant_id |-> tid, username |-> username, role |-> role, is_active |-> 1,
     password_hash |-> salt, last_login_at |-> None]

\* The logical clock of the run: every audited operation advances it.
now_iso == Len(audit_events) + 1

\* ------------------------------------------------------ calls in flight
\* The sessions of the app run as threads of one process, each call with a
\* database connection of its own (db.py db()).
Threads == {1, 2}

\* The local variables of one call of upsert_artifact_version and where the
\* call stands (pc).
Frame(pc, tid, filename, data, artifact_id, last, next_ver, error) ==
    [pc |-> pc, tid |-> tid, filename |-> filename, data |-> data,
     artifact_id |-> artifact_id, last |-> last, next_ver |-> next_ver,
     error |-> error]

IdleFrame == Frame("idle", None, "", Bytes("", "", "", 0), None, None, None, "")

NoTables == [artifacts |-> <<>>, artifact_versions |-> <<>>]

\* No call in flight: lock is the thread whose connection holds SQLite's
\* write lock (None: nobody), txn the tables as that connection sees them,
\* its uncommitted rows included.
NoCalls ==
    [frames |-> [t \in Threads |-> IdleFrame], started |-> 0, lock |-> None,
     txn |-> NoTables]

\* ------------------------------------------------------------------ actions
Init ==
    /\ tenants = << [name |-> "default", is_active |-> 1],
                    [name |-> "acme", is_active |-> 1] >>
    /\ users = << UserRow(None, "root", "superadmin", 0),
                  UserRow(None, "audrey", "auditor", 0),
                  UserRow(1, "ann", "analyst", 0),
                  UserRow(2, "vic", "viewer", 0) >>
    /\ auth_user = NoUser
    /\ tenant_id = None
    /\ objects = <<>>
    /\ artifacts = <<>>
    /\ artifact_versions = <<>>
    /\ inspections = <<>>
    /\ evidence_files = <<>>
    /\ inspection_text_index = <<>>
    /\ audit_events = <<>>
    /\ out = [kind |-> "", tid |-> None, rows |-> {}, files |-> {},
              problems |-> {}, checked |-> 0, seen |-> {}]
    /\ corrupted = {}
    /\ api_calls = 0
    /\ calls = NoCalls

\* auth.py render_login, "Sign in" with a wrong name, a wrong password or a
\* disabled account: st.error and st.stop, nothing is written.
LoginFailed ==
    /\ ~LoggedIn
    /\ out' = Out("login_failed", None, {}, {}, {}, 0)
    /\ UNCHANGED <<tenants, users, auth_user, tenant_id, objects, artifacts,
                   artifact_versions, inspections, evidence_files,
                   inspection_text_index, audit_events, corrupted, api_calls>>
    /\ UNCHANGED calls

\* The tenant id render_login stores for the user row r.
LoginTenant(r) ==
    IF can_cross_tenant(r) THEN None ELSE r.tenant_id

\* auth.py render_login, line 119: the sign-in of user row r with the right
\* password is let through.
login_accepts_inactive(r) == TRUE

login_accepts(r) == r.is_active = 1

\* auth.py render_login, "Sign in" of the active user with id i and the right
\* password, followed by the script run st.rerun() starts (ui_pages.py
\* render_pages: the tenant sidebar runs before the page).
Login(i) ==
    /\ ~LoggedIn
    /\ login_accepts(users[i])
    /\ Len(audit_events) < MaxAudit
    /\ LET r   == users[i]
           u   == [id |-> i, username |-> r.username, role |-> r.role,
                   tenant_id |-> r.tenant_id]
           tid == LoginTenant(r)
       IN /\ auth_user' = u
          /\ Commit(audit(Vault, u, tid, "login_success"))
          /\ tenants' = ensure_default_tenant(tenants).tenants
          /\ tenant_id' = render_tenant_selector_sidebar(u, tid, tenants, None)
          /\ out' = Out("", None, {}, {}, {}, 0)
    /\ users' = [users EXCEPT ![i].last_login_at = now_iso]
    /\ UNCHANGED <<corrupted, api_calls>>
    /\ UNCHANGED calls

\* auth.py render_logout_sidebar, "Sign out".
Logout ==
    /\ LoggedIn
    /\ Len(audit_events) < MaxAudit
    /\ Commit(audit(Vault, auth_user, tenant_id, "logout"))
    /\ auth_user' = NoUser
    /\ tenant_id' = None
    /\ out' = Out("", None, {}, {}, {}, 0)
    /\ UNCHANGED <<tenants, users, corrupted, api_calls>>
    /\ UNCHANGED calls

\* ui_pages.py render_pages for a signed-in user who opens a page and
\* presses nothing on it: only the tenant sidebar acts.
RenderPage(choice) ==
    /\ LoggedIn
    /\ tenants' = ensure_default_tenant(tenants).tenants
    /\ tenant_id' = render_tenant_selector_sidebar(auth_user, tenant_id, tenants, choice)
    /\ out' = Out("", None, {}, {}, {}, 0)
    /\ UNCHANGED <<users, auth_user, objects, artifacts, artifact_versions,
                   inspections, evidence_files, inspection_text_index,
                   audit_events, corrupted, api_calls>>
    /\ UNCHANGED calls

\* inspector.py render_cui_inspector, one pass of "for f in files".
InspectFile(V, u, tid, f, autosave, pdf_ok, store_index) ==
    LET findings == Findings(f.name, f.data)
        up     == upsert_artifact_version(V, tid, f.name, f.data)
        av_id  == up.ret
        saved  == save_inspection_record(up.vault, tid, av_id, "file", findings)
        ins_id == saved.ret
        V1 == IF autosave
              THEN attach_evidence_file(saved.vault, tid, ins_id, "findings_json",
                                        findings_json(findings, ins_id))
              ELSE saved.vault
        V2 == IF autosave /\ pdf_ok
              THEN attach_evidence_file(V1, tid, ins_id, "report_pdf",
                                        report_pdf(findings, ins_id))
              ELSE V1
        V3 == IF store_index
              THEN save_text_index(V2, tid, ins_id, av_id, f.name)
              ELSE V2
    IN audit(V3, u, tid, "inspection_run")

\* inspector.py render_cui_inspector, the "if manual_text" branch.
InspectManual(V, u, tid, text, autosave, pdf_ok, store_index) ==
    LET findings == Findings(manual_name, Bytes("text", "", text, 0))
        saved  == save_inspection_record(V, tid, None, "manual", findings)
        ins_id == saved.ret
        V1 == IF autosave
              THEN attach_evidence_file(saved.vault, tid, ins_id, "findings_json",
                                        findings_json(findings, ins_id))
              ELSE saved.vault
        V2 == IF autosave /\ pdf_ok
              THEN attach_evidence_file(V1, tid, ins_id, "report_pdf",
                                        report_pdf(findings, ins_id))
              ELSE V1
        V3 == IF store_index
              THEN save_text_index(V2, tid, ins_id, None, manual_name)
              ELSE V2
    IN audit(V3, u, tid, "inspection_run")

\* The files loop of render_cui_inspector.
RECURSIVE InspectFiles(_, _, _, _, _, _, _)
InspectFiles(V, u, tid, files, autosave, pdf_ok, store_index) ==
    IF files = <<>> THEN V
    ELSE InspectFiles(InspectFile(V, u, tid, Head(files), autosave, pdf_ok, store_index),
                      u, tid, Tail(files), autosave, pdf_ok, store_index)

\* What may be put in the uploader: no file, or one file (content A under
\* either spelling of the name, content B under one).
Uploads ==
    {<<>>} \cup
    ({<<[name |-> n, data |-> d]>> : n \in Filenames, d \in FileBytes}
     \ {<<[name |-> "Plan.TXT", data |-> Bytes("file", "", "B", 0)]>>})

\* ui_pages.py render_pages + inspector.py render_cui_inspector with the
\* "Inspect" button pressed: the sidebar resolves the tenant, then every
\* uploaded file and the pasted text are inspected and recorded.  No role is
\* checked on the way.
Inspect(choice, files, text, autosave, pdf_ok, store_index) ==
    /\ LoggedIn
    /\ LET n == Len(files) + (IF text = "" THEN 0 ELSE 1)
       IN /\ Len(inspections) + n <= MaxInspections
          /\ Len(audit_events) + n <= MaxAudit
    /\ tenants' = ensure_default_tenant(tenants).tenants
    /\ tenant_id' = render_tenant_selector_sidebar(auth_user, tenant_id, tenants, choice)
    /\ LET tid == tenant_id'
           V1  == InspectFiles(Vault, auth_user, tid, files, autosave, pdf_ok, store_index)
           V2  == IF text = "" THEN V1
                  ELSE InspectManual(V1, auth_user, tid, text, autosave, pdf_ok, store_index)
       IN IF tid = None
          THEN /\ out' = Out("select_tenant", tid, {}, {}, {}, 0)
               /\ UNCHANGED <<objects, artifacts, artifact_versions, inspections,
                              evidence_files, inspection_text_index, audit_events>>
          ELSE /\ Commit(V2)
               /\ out' = Out("", None, {}, {}, {}, 0)
    /\ UNCHANGED <<users, auth_user, corrupted, api_calls>>
    /\ UNCHANGED calls

\* evidence.py render_evidence_vault: the inspections of the active tenant
\* and the evidence files of the one picked in the selectbox.
render_evidence_vault(tid, pick) ==
    LET rows  == {i \in DOMAIN inspections : inspections[i].tenant_id = tid}
        sel   == IF pick \in rows THEN pick ELSE IF rows = {} THEN None ELSE Max(rows)
        files == {e \in DOMAIN evidence_files :
                        /\ evidence_files[e].tenant_id = tid
                        /\ evidence_files[e].inspection_id = sel}
    IN [rows |-> rows, files |-> IF rows = {} THEN {} ELSE files]

\* ui_pages.py render_pages + evidence.py render_evidence_vault.
ViewVault(choice, pick) ==
    /\ LoggedIn
    /\ tenants' = ensure_default_tenant(tenants).tenants
    /\ tenant_id' = render_tenant_selector_sidebar(auth_user, tenant_id, tenants, choice)
    /\ LET tid  == tenant_id'
           view == render_evidence_vault(tid, pick)
       IN out' = IF tid = None THEN Out("select_tenant", tid, {}, {}, {}, 0)
                 ELSE Out("evidence_vault", tid, view.rows, view.files, {}, 0)
    /\ UNCHANGED <<users, auth_user, objects, artifacts, artifact_versions,
                   inspections, evidence_files, inspection_text_index,
                   audit_events, corrupted, api_calls>>
    /\ UNCHANGED calls

\* evidence.py render_verify_evidence_vault, body of "Run verification":
\* the rows of the tenant that fail verify_object, and how many were checked.
verify_vault(tid) ==
    LET av  == {i \in DOMAIN artifact_versions : artifact_versions[i].tenant_id = tid}
        ef  == {i \in DOMAIN evidence_files : evidence_files[i].tenant_id = tid}
        bad == {<<"artifact_versions", i>> : i \in
                   {i \in av : ~verify_object(objects, artifact_versions[i].object_relpath,
                                              artifact_versions[i].sha256).ok}}
               \cup
               {<<"evidence_files", i>> : i \in
                   {i \in ef : ~verify_object(objects, evidence_files[i].object_relpath,
                                              evidence_files[i].sha256).ok}}
    IN [problems |-> bad, checked |-> Cardinality(av) + Cardinality(ef)]

\* ui_pages.py render_pages + evidence.py render_verify_evidence_vault with
\* "Run verification" pressed.
Verify(choice) ==
    /\ LoggedIn
    /\ Len(audit_events) < MaxAudit
    /\ tenants' = ensure_default_tenant(tenants).tenants
    /\ tenant_id' = render_tenant_selector_sidebar(auth_user, tenant_id, tenants, choice)
    /\ LET tid == tenant_id'
           rep == verify_vault(tid)
       IN IF tid = None
          THEN /\ out' = Out("select_tenant", tid, {}, {}, {}, 0)
               /\ UNCHANGED audit_events
          ELSE /\ out' = Out("verify", tid, {}, {}, rep.problems, rep.checked)
               /\ audit_events' = audit(Vault, auth_user, tid, "verify_vault").audit_events
    /\ UNCHANGED <<users, auth_user, objects, artifacts, artifact_versions,
                   inspections, evidence_files, inspection_text_index,
                   corrupted, api_calls>>
    /\ UNCHANGED calls

\* ------------------------------------------------- failures inside a batch
\* What can go wrong while one document of a batch is processed: nothing,
\* the text extraction inside inspect_file, the INSERT of
\* upsert_artifact_version (sqlite3.OperationalError, IntegrityError), or
\* the attachment of the findings JSON.
Failures == {"", "extract", "vault", "evidence"}

\* CUIInspector.inspect_file, the except branch: the error-shaped result,
\* with risk_level = "ERROR" and nothing analysed.
ErrorFindings(filename) ==
    [filename |-> filename, inspected |-> Bytes("ERROR", filename, "", 0)]

\* inspector.py render_cui_inspector, lines 113-138, with the failure
\* f.fail happening to document f.  An exception of upsert_artifact_version
\* (line 119) or of the first attach_evidence_file (line 123) is caught
\* nowhere: it ends the loop and the page run.  The result holds the vault
\* and whether an exception was raised.
RECURSIVE InspectBatch(_, _, _, _, _, _, _)
InspectBatch(V, u, tid, files, autosave, pdf_ok, store_index) ==
    IF files = <<>> THEN [vault |-> V, raised |-> FALSE]
    ELSE LET f == Head(files)
             findings == IF f.fail = "extract" THEN ErrorFindings(f.name)
                         ELSE Findings(f.name, f.data)
             up     == upsert_artifact_version(V, tid, f.name, f.data)
             av_id  == up.ret
             saved  == save_inspection_record(up.vault, tid, av_id, "file", findings)
             ins_id == saved.ret
             V1 == IF autosave
                   THEN attach_evidence_file(saved.vault, tid, ins_id, "findings_json",
                                             findings_json(findings, ins_id))
                   ELSE saved.vault
             V2 == IF autosave /\ pdf_ok
                   THEN attach_evidence_file(V1, tid, ins_id, "report_pdf",
                                             report_pdf(findings, ins_id))
                   ELSE V1
             V3 == IF store_index
                   THEN save_text_index(V2, tid, ins_id, av_id, f.name)
                   ELSE V2
         IN IF f.fail = "vault"
            THEN [vault |-> [V EXCEPT !.objects = write_object(@, f.data)],
                  raised |-> TRUE]
            ELSE IF f.fail = "evidence" /\ autosave
            THEN [vault |-> saved.vault, raised |-> TRUE]
            ELSE InspectBatch(audit(V3, u, tid, "inspection_run"), u, tid,
                              Tail(files), autosave, pdf_ok, store_index)

\* ui_pages.py render_pages + inspector.py render_cui_inspector with the
\* "Inspect" button pressed on a batch of uploaded files.  The output names
\* the inspections recorded by the run and the number of files uploaded.
InspectDocuments(choice, files, autosave, pdf_ok, store_index) ==
    /\ LoggedIn
    /\ Len(inspections) + Len(files) <= MaxInspections
    /\ Len(audit_events) + Len(files) <= MaxAudit
    /\ tenants' = ensure_default_tenant(tenants).tenants
    /\ tenant_id' = render_tenant_selector_sidebar(auth_user, tenant_id, tenants, choice)
    /\ LET tid == tenant_id'
           run == InspectBatch(Vault, auth_user, tid, files, autosave, pdf_ok, store_index)
           new == (1..Len(run.vault.inspections)) \ (1..Len(inspections))
       IN IF tid = None
          THEN /\ out' = Out("select_tenant", tid, {}, {}, {}, 0)
               /\ UNCHANGED <<objects, artifacts, artifact_versions, inspections,
                              evidence_files, inspection_text_index, audit_events>>
          ELSE /\ Commit(run.vault)
               /\ out' = Out(IF run.raised THEN "Exception" ELSE "inspected",
                             tid, new, {}, {}, Len(files))
    /\ UNCHANGED <<users, auth_user, corrupted, api_calls>>
    /\ UNCHANGED calls

\* evidence.py render_evidence_vault, lines 36-39: the evidence file picked
\* in the second selectbox (the first of the list when nothing is picked) is
\* read for the download button; read_object raises FileNotFoundError when
\* the object is missing and the page ends with the exception.
Download(choice, pick, ev) ==
    /\ LoggedIn
    /\ tenants' = ensure_default_tenant(tenants).tenants
    /\ tenant_id' = render_tenant_selector_sidebar(auth_user, tenant_id, tenants, choice)
    /\ LET tid  == tenant_id'
           view == render_evidence_vault(tid, pick)
           ev_id == IF ev \in view.files THEN ev ELSE Max(view.files)
       IN out' = IF tid = None THEN Out("select_tenant", tid, {}, {}, {}, 0)
                 ELSE IF view.files = {}
                 THEN Out("evidence_vault", tid, view.rows, view.files, {}, 0)
                 ELSE IF evidence_files[ev_id].object_relpath \notin DOMAIN objects
                 THEN Out("FileNotFoundError", tid, view.rows, {}, {}, 0)
                 ELSE Out("download", tid, view.rows, {ev_id}, {}, 0)
    /\ UNCHANGED <<users, auth_user, objects, artifacts, artifact_versions,
                   inspections, evidence_files, inspection_text_index,
                   audit_events, corrupted, api_calls>>
    /\ UNCHANGED calls

\* manifest.py render_manifest_export, lines 21-64: rows are the evidence
\* files of the tenant joined with their inspection (manifest.csv), zipped
\* the rows whose object was written into the ZIP; a read_object that raises
\* is passed over.
manifest_zip(tid, include_objects) ==
    LET rows == {e \in DOMAIN evidence_files :
                    /\ evidence_files[e].tenant_id = tid
                    /\ evidence_files[e].inspection_id \in DOMAIN inspections}
    IN [rows |-> rows,
        zipped |-> IF include_objects
                   THEN {e \in rows : evidence_files[e].object_relpath \in DOMAIN objects}
                   ELSE {}]

\* ui_pages.py render_pages + manifest.py render_manifest_export with
\* "Generate manifest ZIP" pressed: the ZIP is built, the export audited and
\* the download offered.
ExportManifest(choice, include_objects) ==
    /\ LoggedIn
    /\ Len(audit_events) < MaxAudit
    /\ tenants' = ensure_default_tenant(tenants).tenants
    /\ tenant_id' = render_tenant_selector_sidebar(auth_user, tenant_id, tenants, choice)
    /\ LET tid == tenant_id'
           zip == manifest_zip(tid, include_objects)
       IN IF tid = None
          THEN /\ out' = Out("select_tenant", tid, {}, {}, {}, 0)
               /\ UNCHANGED audit_events
          ELSE /\ out' = Out(IF include_objects THEN "manifest_with_objects"
                                                ELSE "manifest",
                             tid, zip.rows, zip.zipped, {}, 0)
               /\ audit_events' = audit(Vault, auth_user, tid, "export_manifest").audit_events
    /\ UNCHANGED <<users, auth_user, objects, artifacts, artifact_versions,
                   inspections, evidence_files, inspection_text_index,
                   corrupted, api_calls>>
    /\ UNCHANGED calls

\* -------------------------------------------------------- user management
\* users.py ROLE_CHOICES_SUPER / ROLE_CHOICES_TADMIN and the "Scope" box:
\* what the create-user form offers the signed-in user u.
RoleChoices(u) ==
    IF u.role = "superadmin" THEN {"viewer", "analyst", "tenant_admin", "auditor"}
    ELSE {"viewer", "analyst"}

ScopeChoices(u) ==
    IF u.role = "superadmin" THEN {"Selected tenant", "Cross-tenant (auditor only)"}
    ELSE {"Selected tenant"}

\* users.py render_user_management, lines 39-41: the tenant of the new user.
user_tenant_id_any_role(u, role, scope, tid) ==
    IF u.role = "superadmin" /\ scope = "Cross-tenant (auditor only)"
    THEN None ELSE tid

user_tenant_id(u, role, scope, tid) ==
    IF u.role = "superadmin" /\ role = "auditor" /\ scope = "Cross-tenant (auditor only)"
    THEN None ELSE tid

\* users.py render_user_management, lines 59-76: ids of the users listed
\* (all of them for a superadmin, those of the active tenant otherwise).
ListedUsers(u, tid) ==
    IF u.role = "superadmin" THEN DOMAIN users
    ELSE {i \in DOMAIN users : users[i].tenant_id = tid}

\* ui_pages.py render_pages + users.py render_user_management with "Create
\* user" submitted.  A taken username fails the INSERT on UNIQUE(username).
CreateUser(choice, username, role, scope) ==
    /\ LoggedIn
    /\ auth_user.role \in {"superadmin", "tenant_admin"}
    /\ role \in RoleChoices(auth_user)
    /\ scope \in ScopeChoices(auth_user)
    /\ Len(audit_events) < MaxAudit
    /\ Len(users) < MaxUsers
    /\ tenants' = ensure_default_tenant(tenants).tenants
    /\ tenant_id' = render_tenant_selector_sidebar(auth_user, tenant_id, tenants, choice)
    /\ LET tid == tenant_id'
           row == UserRow(user_tenant_id(auth_user, role, scope, tid),
                          username, role, now_iso)
       IN IF tid = None
          THEN /\ out' = Out("select_tenant", tid, {}, {}, {}, 0)
               /\ UNCHANGED <<users, audit_events>>
          ELSE IF \E i \in DOMAIN users : users[i].username = username
          THEN /\ out' = Out("IntegrityError", tid, {}, {}, {}, 0)
               /\ UNCHANGED <<users, audit_events>>
          ELSE /\ users' = Append(users, row)
               /\ audit_events' = audit(Vault, auth_user, tid, "user_create").audit_events
               /\ out' = Out("", None, {}, {}, {}, 0)
    /\ UNCHANGED <<auth_user, objects, artifacts, artifact_versions, inspections,
                   evidence_files, inspection_text_index, corrupted, api_calls>>
    /\ UNCHANGED calls

\* users.py render_user_management, "Disable user" pressed for the listed
\* user selected.
DisableUser(choice, selected) ==
    /\ LoggedIn
    /\ auth_user.role \in {"superadmin", "tenant_admin"}
    /\ Len(audit_events) < MaxAudit
    /\ tenants' = ensure_default_tenant(tenants).tenants
    /\ tenant_id' = render_tenant_selector_sidebar(auth_user, tenant_id, tenants, choice)
    /\ selected \in ListedUsers(auth_user, tenant_id')
    /\ users' = [users EXCEPT ![selected].is_active = 0]
    /\ audit_events' = audit(Vault, auth_user, tenant_id', "user_disable").audit_events
    /\ out' = Out("", None, {}, {}, {}, 0)
    /\ UNCHANGED <<auth_user, objects, artifacts, artifact_versions, inspections,
                   evidence_files, inspection_text_index, corrupted, api_calls>>
    /\ UNCHANGED calls

\* users.py render_user_management, "Reset password" submitted with a new
\* password for the listed user selected.
ResetPassword(choice, selected) ==
    /\ LoggedIn
    /\ auth_user.role \in {"superadmin", "tenant_admin"}
    /\ Len(audit_events) < MaxAudit
    /\ tenants' = ensure_default_tenant(tenants).tenants
    /\ tenant_id' = render_tenant_selector_sidebar(auth_user, tenant_id, tenants, choice)
    /\ selected \in ListedUsers(auth_user, tenant_id')
    /\ users' = [users EXCEPT ![selected].password_hash = now_iso]
    /\ audit_events' = audit(Vault, auth_user, tenant_id', "password_reset").audit_events
    /\ out' = Out("", None, {}, {}, {}, 0)
    /\ UNCHANGED <<auth_user, objects, artifacts, artifact_versions, inspections,
                   evidence_files, inspection_text_index, corrupted, api_calls>>
    /\ UNCHANGED calls

\* ------------------------------------------------- direct calls of the core
\* auth.py set_tenant_id called by the layer above with a value of its own.
SetTenantId(tid) ==
    /\ api_calls < MaxApiCalls
    /\ api_calls' = api_calls + 1
    /\ tenant_id' = tid
    /\ out' = Out("set_tenant_id", tid, {}, {}, {}, 0)
    /\ UNCHANGED <<tenants, users, auth_user, objects, artifacts,
                   artifact_versions, inspections, evidence_files,
                   inspection_text_index, audit_events, corrupted>>
    /\ UNCHANGED calls

\* inspector.py attach_evidence_file called with arguments of the caller's
\* choosing.  The object is written first; the INSERT fails on the foreign
\* keys (db.py, PRAGMA foreign_keys=ON) when the tenant or the inspection
\* does not exist.
AttachEvidenceFile(tid, inspection_id, data) ==
    /\ api_calls < MaxApiCalls
    /\ api_calls' = api_calls + 1
    /\ LET V == attach_evidence_file(Vault, tid, inspection_id, "summary_csv", data)
       IN IF tid \in 1..Len(tenants) /\ inspection_id \in 1..Len(inspections)
          THEN /\ Commit(V)
               /\ out' = Out("attached", tid, {}, {Len(V.evidence_files)}, {}, 0)
          ELSE /\ objects' = V.objects
               /\ out' = Out("IntegrityError", tid, {}, {}, {}, 0)
               /\ UNCHANGED <<artifacts, artifact_versions, inspections,
                              evidence_files, inspection_text_index, audit_events>>
    /\ UNCHANGED <<tenants, users, auth_user, tenant_id, corrupted>>
    /\ UNCHANGED calls

\* ------------------------------------------------------------- environment
\* The bytes of one stored object are altered outside the program (one
\* alteration in a run: the case the integrity check is specified for).
Corrupt(relpath, b) ==
    /\ relpath \in DOMAIN objects
    /\ corrupted = {}
    /\ sha256_bytes(b) # relpath[2]
    /\ objects' = [objects EXCEPT ![relpath] = b]
    /\ corrupted' = corrupted \cup {relpath}
    /\ UNCHANGED <<tenants, users, auth_user, tenant_id, artifacts,
                   artifact_versions, inspections, evidence_files,
                   inspection_text_index, audit_events, out, api_calls>>
    /\ UNCHANGED calls

\* One stored object is deleted outside the program (one deletion in a run).
Remove(relpath) ==
    /\ relpath \in DOMAIN objects
    /\ corrupted = {}
    /\ objects' = [q \in DOMAIN objects \ {relpath} |-> objects[q]]
    /\ corrupted' = corrupted \cup {relpath}
    /\ UNCHANGED <<tenants, users, auth_user, tenant_id, artifacts,
                   artifact_versions, inspections, evidence_files,
                   inspection_text_index, audit_events, out, api_calls>>
    /\ UNCHANGED calls

\* ---------------------------------------------------------- specifications
SignIn == \E i \in 1..Len(users) : Login(i)

Page == \E choice \in Choices(auth_user, tenants) : RenderPage(choice)

InspectRun ==
    \E choice \in Choices(auth_user, tenants), files \in Uploads, text \in ManualTexts,
       t \in Toggles :
        /\ (files # <<>> \/ text # "")
        /\ Inspect(choice, files, text, t.autosave, t.pdf_ok, t.store_index)

VaultPage ==
    \E choice \in Choices(auth_user, tenants), pick \in 1..Len(inspections) :
        ViewVault(choice, pick)

VerifyRun == \E choice \in Choices(auth_user, tenants) : Verify(choice)

CorruptObject ==
    \E relpath \in DOMAIN objects, b \in Garbage : Corrupt(relpath, b)

ApiSetTenantId == \E tid \in {None} \cup (1..Len(tenants)) : SetTenantId(tid)

ApiAttachEvidenceFile ==
    \E tid \in 1..Len(tenants), inspection_id \in 1..(Len(inspections) + 1) :
        AttachEvidenceFile(tid, inspection_id, Bytes("summary_csv", "", "", 0))

Next ==
    \/ LoginFailed
    \/ SignIn
    \/ Logout
    \/ Page
    \/ InspectRun
    \/ VaultPage
    \/ VerifyRun

\* The program as its pages drive it.
Spec == Init /\ [][Next]_vars

\* The vault under uploads and verification while stored bytes are altered
\* from outside; at most MaxVerified inspections are recorded.
SmallInspectRun == Len(inspections) < MaxVerified /\ InspectRun

NextCorrupt ==
    \/ SignIn
    \/ SmallInspectRun
    \/ VerifyRun
    \/ CorruptObject

SpecCorrupt == Init /\ [][NextCorrupt]_vars

\* The pages that read objects while a stored object is deleted from
\* outside.
RemoveObject == \E relpath \in DOMAIN objects : Remove(relpath)

DownloadRun ==
    \E choice \in Choices(auth_user, tenants), pick \in 1..Len(inspections),
       ev \in 1..Len(evidence_files) : Download(choice, pick, ev)

ExportRun ==
    \E choice \in Choices(auth_user, tenants), include_objects \in BOOLEAN :
        ExportManifest(choice, include_objects)

\* One uploaded file is inspected, nothing pasted.
FileInspectRun ==
    \E choice \in Choices(auth_user, tenants), files \in Uploads \ {<<>>},
       t \in Toggles :
        /\ Len(inspections) < MaxVerified
        /\ Inspect(choice, files, "", t.autosave, t.pdf_ok, t.store_index)

NextMissing ==
    \/ SignIn
    \/ FileInspectRun
    \/ VerifyRun
    \/ DownloadRun
    \/ ExportRun
    \/ RemoveObject

SpecMissing == Init /\ [][NextMissing]_vars

\* Uploads and verification around one alteration of a stored object, made
\* from outside after the first inspection was recorded: every later upload
\* meets the altered object.
EarlyCorrupt == Len(inspections) = 1 /\ CorruptObject

NextRepair ==
    \/ SignIn
    \/ FileInspectRun
    \/ VerifyRun
    \/ EarlyCorrupt

SpecRepair == Init /\ [][NextRepair]_vars

\* Batches of two uploaded files, each with what goes wrong while it is
\* processed.
Batches ==
    {<<[name |-> "Plan.TXT", data |-> Bytes("file", "", "A", 0), fail |-> x],
       [name |-> "notes.txt", data |-> Bytes("file", "", "B", 0), fail |-> y]>> :
        x \in Failures, y \in Failures}

BatchRun ==
    \E choice \in Choices(auth_user, tenants), files \in Batches, t \in Toggles :
        InspectDocuments(choice, files, t.autosave, t.pdf_ok, t.store_index)

NextBatch ==
    \/ SignIn
    \/ Logout
    \/ BatchRun

SpecBatch == Init /\ [][NextBatch]_vars

\* ------------------------------------------------------------- text index
\* A text is given by its number of characters: text[:n] is the prefix of
\* that many characters, and a prefix is the whole text iff it is as long.
MaxIndexed == 2

ExcerptLimit == 1200

Texts == {0, 1, ExcerptLimit - 1, ExcerptLimit, ExcerptLimit + 1, 2 * ExcerptLimit}

\* inspector.py save_text_index, line 71: (text or "")[:1200] if
\* store_excerpt else "".
safe_excerpt(text, store_excerpt) ==
    IF store_excerpt THEN Min({text, ExcerptLimit}) ELSE 0

\* inspector.py save_text_index, lines 79-90: the row, with the excerpt and
\* the character count of the text.
text_index_row(tid, inspection_id, artifact_version_id, filename, text, store_excerpt) ==
    [tenant_id |-> tid, inspection_id |-> inspection_id,
     artifact_version_id |-> artifact_version_id, filename |-> filename,
     safe_excerpt |-> safe_excerpt(text, store_excerpt), char_count |-> text]

\* ui_pages.py render_pages + inspector.py render_cui_inspector with
\* "Inspect" pressed on a pasted text, "Auto-save evidence" off and "Enable
\* search index" on (lines 140-158): the inspection is recorded, the text
\* indexed and the run audited.
InspectPasted(choice, text, store_excerpt) ==
    /\ LoggedIn
    /\ Len(inspection_text_index) < MaxIndexed
    /\ tenants' = ensure_default_tenant(tenants).tenants
    /\ tenant_id' = render_tenant_selector_sidebar(auth_user, tenant_id, tenants, choice)
    /\ LET tid   == tenant_id'
           saved == save_inspection_record(Vault, tid, None, "manual",
                        Findings(manual_name, Bytes("text", "", "pasted", 0)))
       IN IF tid = None
          THEN /\ out' = Out("select_tenant", tid, {}, {}, {}, 0)
               /\ UNCHANGED <<inspections, inspection_text_index, audit_events>>
          ELSE /\ inspections' = saved.vault.inspections
               /\ inspection_text_index' = Append(inspection_text_index,
                      text_index_row(tid, saved.ret, None, manual_name, text,
                                     store_excerpt))
               /\ audit_events' = audit(Vault, auth_user, tid, "inspection_run").audit_events
               /\ out' = Out("", None, {}, {}, {}, 0)
    /\ UNCHANGED <<users, auth_user, objects, artifacts, artifact_versions,
                   evidence_files, corrupted, api_calls>>
    /\ UNCHANGED calls

PastedRun ==
    \E choice \in Choices(auth_user, tenants), text \in Texts \ {0},
       store_excerpt \in BOOLEAN : InspectPasted(choice, text, store_excerpt)

NextIndex ==
    \/ SignIn
    \/ PastedRun

SpecIndex == Init /\ [][NextIndex]_vars

\* Uploads alone, with three contents to choose from.
WideUploads ==
    {<<[name |-> n, data |-> Bytes("file", "", b, 0)]>> :
        n \in Filenames, b \in {"A", "B", "C"}}

UploadRun ==
    \E choice \in Choices(auth_user, tenants), files \in WideUploads, t \in Toggles :
        Inspect(choice, files, "", t.autosave, t.pdf_ok, t.store_index)

NextUploads ==
    \/ SignIn
    \/ UploadRun

SpecUploads == Init /\ [][NextUploads]_vars

\* User management: a superadmin, a tenant admin and an analyst exist.
InitUsers ==
    /\ tenants = << [name |-> "default", is_active |-> 1],
                    [name |-> "acme", is_active |-> 1] >>
    /\ users = << UserRow(None, "root", "superadmin", 0),
                  UserRow(1, "tad", "tenant_admin", 0),
                  UserRow(1, "ann", "analyst", 0) >>
    /\ auth_user = NoUser
    /\ tenant_id = None
    /\ objects = <<>>
    /\ artifacts = <<>>
    /\ artifact_versions = <<>>
    /\ inspections = <<>>
    /\ evidence_files = <<>>
    /\ inspection_text_index = <<>>
    /\ audit_events = <<>>
    /\ out = [kind |-> "", tid |-> None, rows |-> {}, files |-> {},
              problems |-> {}, checked |-> 0, seen |-> {}]
    /\ corrupted = {}
    /\ api_calls = 0
    /\ calls = NoCalls

NewUsernames == {"bob", "ann"}

CreateUserRun ==
    \E choice \in Choices(auth_user, tenants), username \in NewUsernames,
       role \in RoleChoices(auth_user), scope \in ScopeChoices(auth_user) :
        CreateUser(choice, username, role, scope)

DisableUserRun ==
    \E choice \in Choices(auth_user, tenants), selected \in DOMAIN users :
        DisableUser(choice, selected)

ResetPasswordRun ==
    \E choice \in Choices(auth_user, tenants), selected \in DOMAIN users :
        ResetPassword(choice, selected)

NextUsers ==
    \/ LoginFailed
    \/ SignIn
    \/ Logout
    \/ CreateUserRun
    \/ DisableUserRun
    \/ ResetPasswordRun

SpecUsers == InitUsers /\ [][NextUsers]_vars

\* ----------------------------------------------------------- risk scoring
\* rulesets.py RULESETS[...]["weights"].
Weights(ruleset_name) ==
    IF ruleset_name = "Basic"
    THEN [explicit_marking |-> 16, context |-> 6, pattern |-> 18, keyword |-> 5,
          missing_markings_bonus |-> 14, multi_category_bonus |-> 10]
    ELSE [explicit_marking |-> 18, context |-> 8, pattern |-> 20, keyword |-> 6,
          missing_markings_bonus |-> 16, multi_category_bonus |-> 12]

\* rulesets.py RULESETS[...]["patterns"]: pattern name -> category.
PatternCategory(ruleset_name) ==
    IF ruleset_name = "Basic"
    THEN [p \in {"SSN", "DoD_ID"} |->
            IF p = "SSN" THEN "CUI//SP-PRIV (privacy)" ELSE "CUI//SP-PRIV (identifier)"]
    ELSE [p \in {"SSN", "CAGE", "ITAR", "EAR", "CTI"} |->
            CASE p = "SSN"  -> "CUI//SP-PRIV (privacy)"
              [] p = "CAGE" -> "CUI//SP-ORG (org id)"
              [] p = "CTI"  -> "CUI//SP-CTI (cyber threat)"
              [] OTHER      -> "CUI//SP-EXPT (export)"]

RulesetNames == {"Basic", "DoD / GovCon"}

\* utils.py clamp.
clamp_no_cap(n, lo, hi) == IF n < lo THEN lo ELSE n

clamp(n, lo, hi) ==
    LET m == IF hi < n THEN hi ELSE n
    IN IF lo < m THEN m ELSE lo

\* analysis_engine.py analyze_text, line 125.
risk_level_above(risk_score) ==
    IF risk_score > 70 THEN "HIGH" ELSE IF risk_score > 30 THEN "MEDIUM" ELSE "LOW"

risk_level(risk_score) ==
    IF risk_score >= 70 THEN "HIGH" ELSE IF risk_score >= 30 THEN "MEDIUM" ELSE "LOW"

\* sum(d.values()) of a dict given as a function.
RECURSIVE SumValues(_, _)
SumValues(d, keys) ==
    IF keys = {} THEN 0
    ELSE LET k == CHOOSE k \in keys : TRUE
         IN d[k] + SumValues(d, keys \ {k})

\* What a text holds, as analyze_text counts it (lines 52-110): the number
\* of explicit marking phrases, of context phrases and of keywords found in
\* it, and the number of matches of every pattern of the ruleset.
Signals(explicit, ctx, matches, kw) ==
    [explicit_found |-> explicit, ctx_found |-> ctx, matches |-> matches,
     kw_hits |-> kw]

NoSignals(ruleset_name) ==
    Signals(0, 0, [p \in DOMAIN PatternCategory(ruleset_name) |-> 0], 0)

\* A detection that counts keyword-trigger hits as well.
cui_detected_by_keywords(sig, patterns_found, missing_markings) ==
    \/ sig.explicit_found > 0
    \/ patterns_found # {}
    \/ (sig.ctx_found > 0 /\ missing_markings)
    \/ sig.kw_hits > 0

\* analysis_engine.py analyze_text, line 127: bool(explicit_found or
\* patterns_found or (ctx_found and missing_markings)).
cui_detected(sig, patterns_found, missing_markings) ==
    \/ sig.explicit_found > 0
    \/ patterns_found # {}
    \/ (sig.ctx_found > 0 /\ missing_markings)

\* analysis_engine.py _build_recommendations_and_mapping, recs: the six
\* recommendations of a detection, "add markings" inserted at index 1 and
\* "quarantine" at index 0; else the neutral one, followed by "review" when
\* risk_score > 0.
InsertAt(seq, i, e) == SubSeq(seq, 1, i) \o <<e>> \o SubSeq(seq, i + 1, Len(seq))

_build_recommendations_and_mapping(detected, level, score, missing_markings) ==
    LET base == <<"apply markings", "restrict access", "encrypt in transit",
                  "encrypt at rest", "document in SSP", "retain audit logs">>
        r1   == IF missing_markings THEN InsertAt(base, 1, "add missing markings") ELSE base
        r2   == IF level = "HIGH" THEN InsertAt(r1, 0, "quarantine") ELSE r1
        neutral == <<"no strong indicators">>
    IN IF detected THEN r2
       ELSE IF score > 0 THEN Append(neutral, "review sensitive indicators")
       ELSE neutral

\* analysis_engine.py analyze_text, lines 95-135, on a text with the signals
\* sig: the additive score, clamped, the level, the detection and the
\* recommendations.
analyze_text(sig, ruleset_name) ==
    LET cats == PatternCategory(ruleset_name)
        patterns_found == {p \in DOMAIN cats : sig.matches[p] > 0}
        cui_categories == {cats[p] : p \in patterns_found}
        missing_markings ==
            sig.explicit_found = 0 /\ (sig.ctx_found > 0 \/ patterns_found # {})
        weights == Weights(ruleset_name)
        s1 == sig.explicit_found * weights.explicit_marking
        s2 == s1 + (IF sig.ctx_found < 12 THEN sig.ctx_found ELSE 12) * weights.context
        s3 == s2 + SumValues(sig.matches, patterns_found) * weights.pattern
        s4 == IF missing_markings THEN s3 + weights.missing_markings_bonus ELSE s3
        s5 == s4 + sig.kw_hits * weights.keyword
        score == IF Cardinality(cui_categories) >= 2
                 THEN s5 + weights.multi_category_bonus ELSE s5
        risk_score == clamp(score, 0, 100)
        detected == cui_detected(sig, patterns_found, missing_markings)
    IN [kind |-> "analysis", ruleset_name |-> ruleset_name, signals |-> sig,
        missing_markings |-> missing_markings,
        risk_score |-> risk_score, risk_level |-> risk_level(risk_score),
        cui_detected |-> detected,
        recommendations |-> _build_recommendations_and_mapping(
            detected, risk_level(risk_score), risk_score, missing_markings)]

\* The analysis of a text without any signal is shown.
InitScore ==
    /\ tenants = << [name |-> "default", is_active |-> 1],
                    [name |-> "acme", is_active |-> 1] >>
    /\ users = << UserRow(None, "root", "superadmin", 0) >>
    /\ auth_user = NoUser
    /\ tenant_id = None
    /\ objects = <<>>
    /\ artifacts = <<>>
    /\ artifact_versions = <<>>
    /\ inspections = <<>>
    /\ evidence_files = <<>>
    /\ inspection_text_index = <<>>
    /\ audit_events = <<>>
    /\ \E rs \in RulesetNames : out = analyze_text(NoSignals(rs), rs)
    /\ corrupted = {}
    /\ api_calls = 0
    /\ calls = NoCalls

\* analyze_text runs on a text that holds the signals sig.
Analyze(sig) ==
    /\ out' = analyze_text(sig, out.ruleset_name)
    /\ UNCHANGED <<tenants, users, auth_user, tenant_id, objects, artifacts,
                   artifact_versions, inspections, evidence_files,
                   inspection_text_index, audit_events, corrupted, api_calls>>
    /\ UNCHANGED calls

\* The text analysed next holds one explicit marking phrase more.
RaiseExplicit ==
    /\ out.signals.explicit_found < MaxPhrases
    /\ Analyze([out.signals EXCEPT !.explicit_found = @ + 1])

\* ... one context phrase more.
RaiseContext ==
    /\ out.signals.ctx_found < MaxPhrases
    /\ Analyze([out.signals EXCEPT !.ctx_found = @ + 1])

\* ... one match more of one pattern.
RaisePattern ==
    \E p \in DOMAIN out.signals.matches :
        /\ out.signals.matches[p] < MaxMatches
        /\ Analyze([out.signals EXCEPT !.matches[p] = @ + 1])

\* ... one keyword more.
RaiseKeyword ==
    /\ out.signals.kw_hits < MaxPhrases
    /\ Analyze([out.signals EXCEPT !.kw_hits = @ + 1])

NextScore ==
    \/ RaiseExplicit
    \/ RaiseContext
    \/ RaisePattern
    \/ RaiseKeyword

SpecScore == InitScore /\ [][NextScore]_vars

\* The core called by a layer above that passes tenant ids of its own
\* (auth.py set_tenant_id, inspector.py attach_evidence_file).
NextApi ==
    \/ SignIn
    \/ InspectRun
    \/ VaultPage
    \/ ApiSetTenantId
    \/ ApiAttachEvidenceFile

SpecApi == Init /\ [][NextApi]_vars

\* ------------------------------------------- concurrent calls of the vault
\* Two sessions calling upsert_artifact_version at once.  Each statement of
\* the function is one step; between two steps of one call the other call may
\* take any number of its own.
MaxCalls == 3

\* What a file holds between open(p, "wb"), which creates or truncates it,
\* and the write of the bytes (pathlib Path.write_bytes).
Truncated == Bytes("truncated", "", "", 0)

\* db.py, artifacts: UNIQUE(tenant_id, logical_name).
unique_logical_name(arts, row) ==
    \A i \in DOMAIN arts :
        ~(arts[i].tenant_id = row.tenant_id /\ arts[i].logical_name = row.logical_name)

\* A table without the constraint.
unique_version_int_unenforced(avs, row) == TRUE

\* db.py, artifact_versions: UNIQUE(artifact_id, version_int).
unique_version_int(avs, row) ==
    \A i \in DOMAIN avs :
        ~(avs[i].artifact_id = row.artifact_id /\ avs[i].version_int = row.version_int)

\* The tables as the connection of thread t reads them: the committed rows,
\* and its own uncommitted ones while it is in a transaction.
View(t) ==
    IF calls.lock = t THEN calls.txn
    ELSE [artifacts |-> artifacts, artifact_versions |-> artifact_versions]

\* The state of the calls after thread t moved to frame f.
Step(t, f) == [calls EXCEPT !.frames[t] = f]

\* An exception leaves "with db() as con": the transaction of t, if any, is
\* rolled back and its lock released.
Raise(t, error) ==
    [calls EXCEPT !.frames[t].pc = "raised", !.frames[t].error = error,
                  !.lock = IF @ = t THEN None ELSE @,
                  !.txn = IF calls.lock = t THEN NoTables ELSE @]

VaultUnchanged ==
    UNCHANGED <<tenants, users, auth_user, tenant_id, inspections,
                evidence_files, inspection_text_index, audit_events, out,
                corrupted, api_calls>>

\* A session calls upsert_artifact_version(tid, filename, data, ...); sha and
\* the path are computed (repo.py lines 22-24).
StartCall(t, tid, filename, data) ==
    /\ calls.frames[t].pc \in {"idle", "returned", "raised"}
    /\ calls.started < MaxCalls
    /\ calls' = [Step(t, Frame("exists", tid, filename, data, None, None, None, ""))
                   EXCEPT !.started = @ + 1]
    /\ VaultUnchanged
    /\ UNCHANGED <<objects, artifacts, artifact_versions>>

\* repo.py write_object, "if not p.exists()".
Exists(t) ==
    LET f == calls.frames[t]
        p == _path_for(sha256_bytes(f.data))
    IN /\ f.pc = "exists"
       /\ calls' = Step(t, [f EXCEPT !.pc = IF p \in DOMAIN objects
                                             THEN "select_artifact" ELSE "open"])
       /\ VaultUnchanged
       /\ UNCHANGED <<objects, artifacts, artifact_versions>>

\* repo.py write_object, p.write_bytes(data): the open creates the file, or
\* truncates the one another call created in the meantime.
OpenForWrite(t) ==
    LET f == calls.frames[t]
        p == _path_for(sha256_bytes(f.data))
    IN /\ f.pc = "open"
       /\ objects' = [q \in DOMAIN objects \cup {p} |->
                         IF q = p THEN Truncated ELSE objects[q]]
       /\ calls' = Step(t, [f EXCEPT !.pc = "write"])
       /\ VaultUnchanged
       /\ UNCHANGED <<artifacts, artifact_versions>>

\* repo.py write_object, p.write_bytes(data): the bytes are written and the
\* file closed; write_object returns.
WriteBytes(t) ==
    LET f == calls.frames[t]
        p == _path_for(sha256_bytes(f.data))
    IN /\ f.pc = "write"
       /\ objects' = [q \in DOMAIN objects \cup {p} |->
                         IF q = p THEN f.data ELSE objects[q]]
       /\ calls' = Step(t, [f EXCEPT !.pc = "select_artifact"])
       /\ VaultUnchanged
       /\ UNCHANGED <<artifacts, artifact_versions>>

\* inspector.py line 17: SELECT id FROM artifacts WHERE tenant_id=? AND
\* logical_name=?.
SelectArtifact(t) ==
    LET f == calls.frames[t]
        a == ArtifactId(View(t).artifacts, f.tid, _logical(f.filename))
    IN /\ f.pc = "select_artifact"
       /\ calls' = Step(t, [f EXCEPT !.artifact_id = a,
                                     !.pc = IF a # None THEN "select_last"
                                            ELSE "insert_artifact"])
       /\ VaultUnchanged
       /\ UNCHANGED <<objects, artifacts, artifact_versions>>

\* inspector.py lines 21-22: INSERT INTO artifacts begins a transaction and
\* takes the write lock; a row of the same (tenant_id, logical_name) raises
\* sqlite3.IntegrityError.  The row stays uncommitted.
InsertArtifact(t) ==
    LET f   == calls.frames[t]
        row == [tenant_id |-> f.tid, logical_name |-> _logical(f.filename)]
        arts == Append(artifacts, row)
    IN /\ f.pc = "insert_artifact"
       /\ calls.lock = None
       /\ IF unique_logical_name(artifacts, row)
          THEN calls' = [Step(t, [f EXCEPT !.pc = "select_last",
                                           !.artifact_id = Len(arts)])
                           EXCEPT !.lock = t,
                                  !.txn = [artifacts |-> arts,
                                           artifact_versions |-> artifact_versions]]
          ELSE calls' = Raise(t, "IntegrityError")
       /\ VaultUnchanged
       /\ UNCHANGED <<objects, artifacts, artifact_versions>>

\* The tables after thread t committed: its view, with the row it adds.
Commit_versions(t, row) == Append(View(t).artifact_versions, row)

\* inspector.py lines 24-31: SELECT the latest version; the same digest
\* returns its id (leaving the with block commits), else next_ver is
\* computed.
SelectLast(t) ==
    LET f    == calls.frames[t]
        avs  == View(t).artifact_versions
        last == LatestVersionId(avs, f.tid, f.artifact_id)
    IN /\ f.pc = "select_last"
       /\ IF same_as_latest(avs, last, sha256_bytes(f.data))
          THEN /\ calls' = [Step(t, [f EXCEPT !.pc = "returned", !.last = last])
                              EXCEPT !.lock = IF @ = t THEN None ELSE @,
                                     !.txn = IF calls.lock = t THEN NoTables ELSE @]
               /\ artifacts' = View(t).artifacts
          ELSE /\ calls' = Step(t, [f EXCEPT !.pc = "insert_version",
                                             !.last = last,
                                             !.next_ver = next_version(avs, last)])
               /\ UNCHANGED artifacts
       /\ VaultUnchanged
       /\ UNCHANGED <<objects, artifact_versions>>

\* inspector.py lines 32-40: INSERT INTO artifact_versions takes the write
\* lock unless the call holds it; a row of the same (artifact_id,
\* version_int) raises sqlite3.IntegrityError and the transaction is rolled
\* back; else con.commit() publishes the rows and the call returns.
InsertVersion(t) ==
    LET f   == calls.frames[t]
        sha == sha256_bytes(f.data)
        row == [tenant_id |-> f.tid, artifact_id |-> f.artifact_id,
                version_int |-> f.next_ver, original_filename |-> f.filename,
                object_relpath |-> _path_for(sha), sha256 |-> sha]
    IN /\ f.pc = "insert_version"
       /\ calls.lock \in {None, t}
       /\ IF unique_version_int(View(t).artifact_versions, row)
          THEN /\ artifacts' = View(t).artifacts
               /\ artifact_versions' = Commit_versions(t, row)
               /\ calls' = [Step(t, [f EXCEPT !.pc = "returned"])
                              EXCEPT !.lock = None, !.txn = NoTables]
          ELSE /\ calls' = Raise(t, "IntegrityError")
               /\ UNCHANGED <<artifacts, artifact_versions>>
       /\ VaultUnchanged
       /\ UNCHANGED objects

\* db.py db(), sqlite3.connect(DB_PATH): an INSERT that still finds the
\* write lock held by another connection when the busy timeout ends raises
\* sqlite3.OperationalError ("database is locked").
DatabaseLocked(t) ==
    LET f == calls.frames[t]
    IN /\ f.pc \in {"insert_artifact", "insert_version"}
       /\ calls.lock \notin {None, t}
       /\ calls' = Raise(t, "OperationalError")
       /\ VaultUnchanged
       /\ UNCHANGED <<objects, artifacts, artifact_versions>>

CallRun ==
    \E t \in Threads, tid \in DOMAIN tenants, filename \in Filenames,
       data \in FileBytes : StartCall(t, tid, filename, data)

ExistsRun == \E t \in Threads : Exists(t)

OpenRun == \E t \in Threads : OpenForWrite(t)

WriteRun == \E t \in Threads : WriteBytes(t)

SelectArtifactRun == \E t \in Threads : SelectArtifact(t)

InsertArtifactRun == \E t \in Threads : InsertArtifact(t)

SelectLastRun == \E t \in Threads : SelectLast(t)

InsertVersionRun == \E t \in Threads : InsertVersion(t)

DatabaseLockedRun == \E t \in Threads : DatabaseLocked(t)

NextConcurrent ==
    \/ CallRun
    \/ ExistsRun
    \/ OpenRun
    \/ WriteRun
    \/ SelectArtifactRun
    \/ InsertArtifactRun
    \/ SelectLastRun
    \/ InsertVersionRun
    \/ DatabaseLockedRun

SpecConcurrent == Init /\ [][NextConcurrent]_vars

\* ------------------------------------------------------------------ claims
\* Ids of the inspections of uploads made in tenant tid under the logical
\* name logical, in the table ins.
FileRows(ins, tid, logical) ==
    {i \in DOMAIN ins : /\ ins[i].run_type = "file"
                         /\ ins[i].tenant_id = tid
                         /\ _logical(ins[i].filename) = logical}

\* The k-th smallest element of a set of ids.
Nth(S, k) == CHOOSE x \in S : Cardinality({y \in S : y <= x}) = k

\* Ids of the version rows of artifact artifact_id.
VersionsOf(artifact_id) ==
    {i \in DOMAIN artifact_versions : artifact_versions[i].artifact_id = artifact_id}

LogicalNames == {_logical(n) : n \in Filenames}

\* C1: an upload whose bytes are those of the upload made just before it
\* under the same logical name in the same tenant gets the version id the
\* earlier upload got, adds no version row, and leaves exactly one stored
\* object holding those bytes.
IdempotentDedup ==
    [][\A new \in (Len(inspections) + 1)..Len(inspections') :
         LET r    == inspections'[new]
             prev == FileRows(inspections, r.tenant_id, _logical(r.filename))
         IN (/\ r.run_type = "file"
             /\ prev # {}
             /\ inspections[Max(prev)].inspected = r.inspected)
            => /\ r.artifact_version_id = inspections[Max(prev)].artifact_version_id
               /\ artifact_versions' = artifact_versions
               /\ _path_for(sha256_bytes(r.inspected)) \in DOMAIN objects'
               /\ Cardinality({p \in DOMAIN objects' :
                                  objects'[p] = r.inspected}) = 1]_vars

\* C1 happened: the same bytes were uploaded under two spellings of one
\* logical name and both uploads got the one version there is.
IdempotentDedupSeen ==
    \E i, j \in 1..Len(inspections) :
        /\ i < j
        /\ inspections[i].run_type = "file" /\ inspections[j].run_type = "file"
        /\ inspections[i].tenant_id = inspections[j].tenant_id
        /\ inspections[i].filename # inspections[j].filename
        /\ inspections[i].inspected = inspections[j].inspected
        /\ inspections[i].artifact_version_id = inspections[j].artifact_version_id
        /\ Len(artifact_versions) = 1

\* C2: when the N uploads made under one logical name in one tenant have
\* pairwise different contents, the artifact has exactly N version rows,
\* numbered 1..N, and version k holds the digest of the k-th upload.
VersionsFollowUploads ==
    \A tid \in 1..Len(tenants), logical \in LogicalNames :
        LET ups == FileRows(inspections, tid, logical)
            N   == Cardinality(ups)
            aid == ArtifactId(artifacts, tid, logical)
            vs  == VersionsOf(aid)
        IN (/\ N > 0
            /\ \A i, j \in ups :
                  i # j => inspections[i].inspected # inspections[j].inspected)
           => /\ aid # None
              /\ Cardinality(vs) = N
              /\ \A k \in 1..N :
                    \E v \in vs :
                        /\ artifact_versions[v].version_int = k
                        /\ artifact_versions[v].sha256 =
                               sha256_bytes(inspections[Nth(ups, k)].inspected)
                        /\ inspections[Nth(ups, k)].artifact_version_id = v

\* C2 happened: three pairwise different contents were uploaded under one
\* logical name of one tenant and the artifact has three versions.
VersionsFollowUploadsSeen ==
    \E tid \in 1..Len(tenants), logical \in LogicalNames :
        LET ups == FileRows(inspections, tid, logical)
        IN /\ Cardinality(ups) = 3
           /\ \A i, j \in ups :
                 i # j => inspections[i].inspected # inspections[j].inspected
           /\ Cardinality(VersionsOf(ArtifactId(artifacts, tid, logical))) = 3

\* C3: two versions k and k+1 of one artifact never hold the same digest.
ConsecutiveVersionsDiffer ==
    \A i, j \in 1..Len(artifact_versions) :
        (/\ artifact_versions[i].artifact_id = artifact_versions[j].artifact_id
         /\ artifact_versions[j].version_int = artifact_versions[i].version_int + 1)
        => artifact_versions[i].sha256 # artifact_versions[j].sha256

\* C3 happened: an artifact has versions k and k+1 and was uploaded to more
\* often than it has versions (an upload repeated the latest content).
ConsecutiveVersionsSeen ==
    \E i, j \in 1..Len(artifact_versions) :
        /\ artifact_versions[i].artifact_id = artifact_versions[j].artifact_id
        /\ artifact_versions[j].version_int = artifact_versions[i].version_int + 1
        /\ Cardinality(FileRows(inspections, artifact_versions[i].tenant_id,
                                artifacts[artifact_versions[i].artifact_id].logical_name))
             > Cardinality(VersionsOf(artifact_versions[i].artifact_id))

\* C4 as the specification states it: no two version rows of one artifact
\* hold the same digest.
NoTwoVersionsShareDigest ==
    \A i, j \in 1..Len(artifact_versions) :
        (/\ i # j
         /\ artifact_versions[i].artifact_id = artifact_versions[j].artifact_id)
        => artifact_versions[i].sha256 # artifact_versions[j].sha256

\* C4: two version rows of one artifact that hold the same digest are
\* separated by a version of that artifact holding another digest; going
\* back to an earlier content makes a new version.
SameDigestVersionsSeparated ==
    \A i, j \in 1..Len(artifact_versions) :
        (/\ artifact_versions[i].artifact_id = artifact_versions[j].artifact_id
         /\ artifact_versions[i].version_int < artifact_versions[j].version_int
         /\ artifact_versions[i].sha256 = artifact_versions[j].sha256)
        => \E k \in VersionsOf(artifact_versions[i].artifact_id) :
              /\ artifact_versions[i].version_int < artifact_versions[k].version_int
              /\ artifact_versions[k].version_int < artifact_versions[j].version_int
              /\ artifact_versions[k].sha256 # artifact_versions[i].sha256

\* C4 happened: content A, then B, then A again gave versions 1, 2 and 3.
RevertMadeNewVersion ==
    \E i, j \in 1..Len(artifact_versions) :
        /\ artifact_versions[i].artifact_id = artifact_versions[j].artifact_id
        /\ artifact_versions[i].version_int = 1
        /\ artifact_versions[j].version_int = 3
        /\ artifact_versions[i].sha256 = artifact_versions[j].sha256

\* C5: every inspection of an uploaded file references a version row of the
\* inspection's tenant whose digest is the SHA-256 of the inspected bytes.
InspectionReferencesItsBytes ==
    \A i \in 1..Len(inspections) :
        inspections[i].run_type = "file"
        => /\ inspections[i].artifact_version_id \in 1..Len(artifact_versions)
           /\ LET v == artifact_versions[inspections[i].artifact_version_id]
              IN /\ v.tenant_id = inspections[i].tenant_id
                 /\ v.sha256 = sha256_bytes(inspections[i].inspected)

\* C5 happened: an inspection references a version that is not the first of
\* its artifact, in a vault that holds inspections of two tenants.
InspectionOfLaterVersionSeen ==
    \E i, j \in 1..Len(inspections) :
        /\ inspections[i].run_type = "file"
        /\ inspections[j].run_type = "file"
        /\ inspections[i].tenant_id # inspections[j].tenant_id
        /\ inspections[i].artifact_version_id # None
        /\ artifact_versions[inspections[i].artifact_version_id].version_int = 2

\* Rows of table after that table before does not hold.
NewRows(before, after) == {after[i] : i \in (Len(before) + 1)..Len(after)}

\* The last step was a run of the script (login, page, button), not a
\* direct call of the core.
ScriptRan == out.kind \notin {"set_tenant_id", "attached", "IntegrityError"}

\* C6 as the specification states it: while a user who cannot cross tenants
\* is signed in, every artifact, version, inspection, evidence and index
\* row that is written carries that user's tenant, and the evidence vault
\* page shows rows of that tenant only, whatever the active tenant value.
TenantIsolation ==
    [][(LoggedIn /\ ~can_cross_tenant(auth_user))
       => /\ \A r \in NewRows(artifacts, artifacts')
                    \cup NewRows(artifact_versions, artifact_versions')
                    \cup NewRows(inspections, inspections')
                    \cup NewRows(evidence_files, evidence_files')
                    \cup NewRows(inspection_text_index, inspection_text_index') :
                r.tenant_id = auth_user.tenant_id
          /\ out'.kind = "evidence_vault"
             => /\ \A i \in out'.rows :
                      inspections[i].tenant_id = auth_user.tenant_id
                /\ \A e \in out'.files :
                      evidence_files[e].tenant_id = auth_user.tenant_id]_vars

\* C7 as the specification states it: after login and after every run of
\* the tenant sidebar, the active tenant of a user who cannot cross tenants
\* is the user's own tenant.
ActiveTenantIsOwnTenant ==
    (LoggedIn /\ ~can_cross_tenant(auth_user) /\ ScriptRan)
    => tenant_id = auth_user.tenant_id

\* C8 as the specification states it: no step taken while an auditor or a
\* viewer is signed in adds or changes an artifact, version, inspection,
\* evidence or index row.
ReadOnlyRolesNeverWrite ==
    [][auth_user.role \in {"auditor", "viewer"} => catalog' = catalog]_vars

\* C9 as the specification states it: every evidence row has the tenant of
\* the inspection it is attached to (a call naming an inspection of another
\* tenant writes no row).
EvidenceTenantIsInspectionTenant ==
    \A e \in 1..Len(evidence_files) :
        /\ evidence_files[e].inspection_id \in 1..Len(inspections)
        /\ inspections[evidence_files[e].inspection_id].tenant_id
             = evidence_files[e].tenant_id

\* Entries of tenant tid (version rows and evidence rows) whose object is
\* one of the objects at the relpaths in paths.
EntriesReferencing(tid, paths) ==
    {<<"artifact_versions", i>> : i \in
        {i \in 1..Len(artifact_versions) :
            /\ artifact_versions[i].tenant_id = tid
            /\ artifact_versions[i].object_relpath \in paths}}
    \cup
    {<<"evidence_files", i>> : i \in
        {i \in 1..Len(evidence_files) :
            /\ evidence_files[i].tenant_id = tid
            /\ evidence_files[i].object_relpath \in paths}}

\* C10: a verification of the active tenant's vault reports as problems
\* exactly the tenant's version and evidence entries whose object had its
\* bytes altered (none when no object was altered), and it has checked every
\* entry of the tenant.
VerifyFlagsExactlyCorrupted ==
    out.kind = "verify"
    => /\ out.problems = EntriesReferencing(out.tid, out.seen)
       /\ out.checked = Cardinality(EntriesReferencing(out.tid, DOMAIN objects))

\* C10 happened: a verification ran after one object was altered, reported
\* a problem, and checked entries of other objects that it did not report.
VerifyAfterCorruptionSeen ==
    /\ out.kind = "verify"
    /\ Cardinality(out.seen) = 1
    /\ out.problems # {}
    /\ Cardinality(out.problems) < out.checked

\* C11 as the specification states it: a verification run changes no
\* persisted state, neither the object store nor any table, audit_events
\* included.
VerifyChangesNothing ==
    [][VerifyRun => UNCHANGED <<objects, catalog, audit_events, tenants, users>>]_vars

\* C14: inspection, version, evidence and audit rows are append-only: every
\* step leaves each row of these tables where it was and as it was.
IsPrefix(s, t) == Len(s) <= Len(t) /\ \A i \in 1..Len(s) : s[i] = t[i]

AppendOnly ==
    [][/\ IsPrefix(inspections, inspections')
       /\ IsPrefix(artifact_versions, artifact_versions')
       /\ IsPrefix(evidence_files, evidence_files')
       /\ IsPrefix(audit_events, audit_events')]_vars

\* C14 happened: the four tables hold rows and a re-upload of a stored
\* content under the other spelling of its name was inspected after them.
AppendOnlySeen ==
    /\ Len(artifact_versions) >= 1
    /\ Len(evidence_files) >= 4
    /\ Len(audit_events) >= 3
    /\ \E i, j \in 1..Len(inspections) :
          /\ i < j
          /\ inspections[i].artifact_version_id = inspections[j].artifact_version_id
          /\ inspections[i].artifact_version_id # None
          /\ inspections[i].filename # inspections[j].filename

\* Number of rows a step adds to table before.
Added(before, after) == Len(after) - Len(before)

\* C15 as the specification states it: every version, inspection, evidence
\* and text-index row that a step writes comes with exactly one audit event
\* of its own: a step that writes such rows adds as many audit rows.
OneAuditPerWrite ==
    [][LET written == Added(artifact_versions, artifact_versions')
                      + Added(inspections, inspections')
                      + Added(evidence_files, evidence_files')
                      + Added(inspection_text_index, inspection_text_index')
       IN written > 0 => Added(audit_events, audit_events') = written]_vars

\* C16 as the specification states it: a rejected sign-in appends an audit
\* event of a type of its own.
LoginFailureIsAudited ==
    [][LoginFailed
       => /\ Len(audit_events') = Len(audit_events) + 1
          /\ audit_events'[Len(audit_events')].event_type = "login_failed"]_vars

\* C17: a disabled user stays disabled: no step makes the user active
\* again, changes the user's last_login_at, or signs the user in.
DisabledIsTerminal ==
    [][\A i \in DOMAIN users :
          users[i].is_active = 0
          => /\ users'[i].is_active = 0
             /\ users'[i].last_login_at = users[i].last_login_at
             /\ auth_user'.id = i => auth_user.id = i]_vars

\* C17 happened: a user who had signed in before was disabled, and a
\* sign-in was rejected after that with nobody signed in.
RejectedAfterDisableSeen ==
    /\ ~LoggedIn
    /\ out.kind = "login_failed"
    /\ \E i \in DOMAIN users :
          users[i].is_active = 0 /\ users[i].last_login_at # None

\* C18: every tenant_admin, analyst and viewer has a tenant; only superadmin
\* and auditor users may have none.
NonCrossRolesHaveTenant ==
    \A i \in DOMAIN users :
        users[i].role \in {"tenant_admin", "analyst", "viewer"}
        => users[i].tenant_id # None

\* C18 happened: a superadmin created the tenant admin bob, who got the
\* tenant that was selected in the sidebar.
ScopedUserCreatedSeen ==
    /\ auth_user.role = "superadmin"
    /\ \E i \in DOMAIN users :
          /\ users[i].password_hash # 0
          /\ users[i].last_login_at = None
          /\ users[i].username = "bob"
          /\ users[i].role = "tenant_admin"
          /\ users[i].tenant_id = 1

\* C19: risk_score is an integer of 0..100, and analysing a text with one
\* more explicit marking, context phrase, pattern match or keyword, the other
\* counts being the same, never gives a lower risk_score, under both
\* rulesets.
ScoreBoundedAndMonotone ==
    /\ [](out.risk_score \in 0..100)
    /\ [][out'.risk_score >= out.risk_score]_vars

\* C19 happened: a text with context phrases got its first explicit marking,
\* which ended the missing-markings bonus, and the score is below the cap.
MarkingReplacedBonusSeen ==
    /\ out.signals.explicit_found = 1
    /\ out.signals.ctx_found > 0
    /\ ~out.missing_markings
    /\ out.risk_score < 100

\* C20: risk_score is the additive formula clamped to 0..100, and risk_level
\* is HIGH iff risk_score >= 70, MEDIUM iff 30 <= risk_score < 70, LOW
\* otherwise.
ScoreIsAdditiveFormula ==
    LET w    == Weights(out.ruleset_name)
        sig  == out.signals
        cats == PatternCategory(out.ruleset_name)
        ctx  == IF sig.ctx_found < 12 THEN sig.ctx_found ELSE 12
        sum  == sig.explicit_found * w.explicit_marking
                + ctx * w.context
                + SumValues(sig.matches, DOMAIN sig.matches) * w.pattern
                + (IF out.missing_markings THEN w.missing_markings_bonus ELSE 0)
                + sig.kw_hits * w.keyword
                + (IF Cardinality({cats[p] : p \in {q \in DOMAIN cats : sig.matches[q] > 0}}) >= 2
                   THEN w.multi_category_bonus ELSE 0)
    IN /\ out.risk_score = (IF sum > 100 THEN 100 ELSE IF sum < 0 THEN 0 ELSE sum)
       /\ out.risk_level = "HIGH" <=> out.risk_score >= 70
       /\ out.risk_level = "MEDIUM" <=> (30 <= out.risk_score /\ out.risk_score < 70)
       /\ out.risk_level = "LOW" <=> out.risk_score < 30

\* C20 happened: a score of exactly 70 that includes the multi-category
\* bonus was rated HIGH.
ThresholdScoreSeen ==
    /\ out.risk_score = 70
    /\ out.risk_level = "HIGH"
    /\ Cardinality({p \in DOMAIN out.signals.matches : out.signals.matches[p] > 0}) >= 2

\* The calls of thread t whose write_object has returned: every statement
\* of upsert_artifact_version after line 15.
AfterWriteObject ==
    {"select_artifact", "insert_artifact", "select_last", "insert_version",
     "returned", "raised"}

\* C12: under any interleaving of concurrent upsert_artifact_version calls,
\* no two artifact_versions rows share (artifact_id, version_int) and no two
\* artifacts rows share (tenant_id, logical_name), committed or not.
NoDuplicateVersionNumbers ==
    \A T \in {[artifacts |-> artifacts, artifact_versions |-> artifact_versions],
              calls.txn} :
        /\ \A i, j \in DOMAIN T.artifact_versions :
               (/\ T.artifact_versions[i].artifact_id = T.artifact_versions[j].artifact_id
                /\ T.artifact_versions[i].version_int = T.artifact_versions[j].version_int)
               => i = j
        /\ \A i, j \in DOMAIN T.artifacts :
               (/\ T.artifacts[i].tenant_id = T.artifacts[j].tenant_id
                /\ T.artifacts[i].logical_name = T.artifacts[j].logical_name)
               => i = j

\* C12 witness: two calls read the same latest version and computed the same
\* next_ver; one inserted it, the other was refused with IntegrityError.
StaleVersionNumberRefused ==
    \E t \in Threads :
        LET f == calls.frames[t]
        IN /\ f.pc = "raised"
           /\ f.error = "IntegrityError"
           /\ f.next_ver # None
           /\ \E i \in DOMAIN artifact_versions :
                  /\ artifact_versions[i].artifact_id = f.artifact_id
                  /\ artifact_versions[i].version_int = f.next_ver
                  /\ i # f.last

\* C13: once write_object has returned in a call, the object at the path of
\* the digest holds exactly the bytes of the call.
ReturnedObjectIsWhole ==
    \A t \in Threads :
        LET f == calls.frames[t]
            p == _path_for(sha256_bytes(f.data))
        IN f.pc \in AfterWriteObject =>
               p \in DOMAIN objects /\ objects[p] = f.data

\* C21: cui_detected is true iff an explicit marking was found, or a
\* structured pattern matched, or context hits exist and the absence
\* heuristic fired; the heuristic is true iff context or pattern signals
\* exist and no explicit marking was found; keyword hits alone never set it.
CuiDetectedIffStrongSignal ==
    LET sig      == out.signals
        patterns == \E p \in DOMAIN sig.matches : sig.matches[p] > 0
        absence  == (sig.ctx_found > 0 \/ patterns) /\ sig.explicit_found = 0
    IN /\ out.missing_markings <=> absence
       /\ out.cui_detected <=>
              (sig.explicit_found > 0 \/ patterns \/ (sig.ctx_found > 0 /\ absence))
       /\ (sig.explicit_found = 0 /\ sig.ctx_found = 0 /\ ~patterns)
              => ~out.cui_detected

\* C21 happened: a text whose only signals are keyword hits was analysed
\* and scored, and is not a detection.
KeywordsAloneNotDetectedSeen ==
    /\ out.signals.kw_hits > 0
    /\ out.signals.explicit_found = 0
    /\ out.signals.ctx_found = 0
    /\ \A p \in DOMAIN out.signals.matches : out.signals.matches[p] = 0
    /\ out.risk_score > 0
    /\ ~out.cui_detected

\* C22: whenever cui_detected is false the recommendations are exactly the
\* neutral one.
UndetectedGetsOneNeutralRecommendation ==
    ~out.cui_detected => out.recommendations = <<"no strong indicators">>

\* C23: an operation that reads objects never completes as a success while
\* skipping a missing object: a manifest exported with its objects holds
\* the object of every row of the manifest.
ExportHoldsEveryObject ==
    out.kind = "manifest_with_objects" => out.files = out.rows

\* C26: a digest mismatch is never repaired: an object whose bytes were
\* altered stays in the store with bytes that do not hash to its path, no
\* step (verification, upload of the original bytes, evidence attachment)
\* rewrites it, and every verification reports the rows of the tenant that
\* reference it.
MismatchIsNeverRepaired ==
    /\ [](\A p \in corrupted :
              p \in DOMAIN objects /\ sha256_bytes(objects[p]) # p[2])
    /\ [](out.kind = "verify" =>
              EntriesReferencing(out.tid, out.seen) \subseteq out.problems)
    /\ [][\A p \in corrupted : p \in DOMAIN objects' /\ objects'[p] = objects[p]]_vars

\* C26 happened: the second inspection uploaded the bytes of an object that
\* had been altered before it, and a verification after it reported the
\* version it was recorded against.
ReuploadLeftMismatchSeen ==
    /\ Len(inspections) >= 2
    /\ inspections[2].artifact_version_id # None
    /\ LET v == inspections[2].artifact_version_id
       IN /\ artifact_versions[v].object_relpath \in corrupted
          /\ artifact_versions[v].sha256 = sha256_bytes(inspections[2].inspected)
          /\ out.kind = "verify"
          /\ <<"artifact_versions", v>> \in out.problems

\* C24: in a batch inspection a failure while one document is processed
\* never keeps the other documents from being inspected and recorded: the
\* run ends without an exception and has recorded one inspection for every
\* uploaded document, error-shaped for a document whose extraction failed.
BatchSurvivesDocumentFailure ==
    out.kind \in {"inspected", "Exception"}
    => /\ out.kind = "inspected"
       /\ Cardinality(out.rows) = out.checked

\* C25: the stored excerpt of every text-index entry is at most 1200
\* characters and is never the complete source text, whatever the length of
\* the text and whether or not excerpt storage is on.
ExcerptIsNeverWholeText ==
    \A i \in DOMAIN inspection_text_index :
        LET r == inspection_text_index[i]
        IN /\ r.safe_excerpt <= ExcerptLimit
           /\ r.char_count > 0 => r.safe_excerpt # r.char_count

\* C27: a logical name uploaded under two tenants is two artifacts, one per
\* tenant; the versions of every artifact carry its tenant and are numbered
\* 1..n whatever the other tenant uploads; version rows holding the same
\* digest, of one tenant or of two, point to the one object stored for it.
TenantsVersionIndependently ==
    /\ \A a, b \in DOMAIN artifacts :
           (/\ artifacts[a].tenant_id = artifacts[b].tenant_id
            /\ artifacts[a].logical_name = artifacts[b].logical_name) => a = b
    /\ \A a \in DOMAIN artifacts :
           /\ \A v \in VersionsOf(a) :
                  artifact_versions[v].tenant_id = artifacts[a].tenant_id
           /\ {artifact_versions[v].version_int : v \in VersionsOf(a)}
                  = 1..Cardinality(VersionsOf(a))
    /\ \A v \in DOMAIN artifact_versions :
           /\ artifact_versions[v].artifact_id \in DOMAIN artifacts
           /\ artifact_versions[v].object_relpath = _path_for(artifact_versions[v].sha256)
           /\ artifact_versions[v].object_relpath \in DOMAIN objects
           /\ sha256_bytes(objects[artifact_versions[v].object_relpath])
                  = artifact_versions[v].sha256
    /\ Cardinality({p \in DOMAIN objects : objects[p].kind = "file"})
          = Cardinality({artifact_versions[v].sha256 : v \in DOMAIN artifact_versions})

\* C27 happened: one logical name has an artifact in each of two tenants,
\* one with two versions and one with a single version 1, and a version of
\* each holds the same bytes in the same object.
SharedBlobTwoTenantsSeen ==
    \E a, b \in DOMAIN artifacts :
        /\ artifacts[a].tenant_id # artifacts[b].tenant_id
        /\ artifacts[a].logical_name = artifacts[b].logical_name
        /\ Cardinality(VersionsOf(a)) = 2
        /\ Cardinality(VersionsOf(b)) = 1
        /\ \E v \in VersionsOf(a), w \in VersionsOf(b) :
               /\ artifact_versions[v].sha256 = artifact_versions[w].sha256
               /\ artifact_versions[v].object_relpath = artifact_versions[w].object_relpath
               /\ artifact_versions[v].version_int = 2
               /\ artifact_versions[w].version_int = 1

\* C28: under any interleaving of concurrent upsert_artifact_version calls
\* no call aborts on a uniqueness violation of (tenant_id, logical_name) or
\* (artifact_id, version_int), and a call that has returned leaves a version
\* row of its artifact holding the digest of its bytes.
NoCallAbortsOnUniqueness ==
    \A t \in Threads :
        LET f == calls.frames[t]
        IN /\ ~(f.pc = "raised" /\ f.error = "IntegrityError")
           /\ f.pc = "returned" =>
                  \E v \in DOMAIN artifact_versions :
                      /\ artifact_versions[v].tenant_id = f.tid
                      /\ artifact_versions[v].artifact_id = f.artifact_id
                      /\ artifact_versions[v].sha256 = sha256_bytes(f.data)

\* C29: at every point of execution, between the statements of an upload
\* included, every version row (committed or not) and every evidence row
\* refers to an object that is in the store and holds the bytes of the
\* row's digest.
RowsReferenceWrittenObjects ==
    /\ \A T \in {artifact_versions, calls.txn.artifact_versions} :
           \A v \in DOMAIN T :
               /\ T[v].object_relpath \in DOMAIN objects
               /\ sha256_bytes(objects[T[v].object_relpath]) = T[v].sha256
    /\ \A e \in DOMAIN evidence_files :
           /\ evidence_files[e].object_relpath \in DOMAIN objects
           /\ sha256_bytes(objects[evidence_files[e].object_relpath])
                  = evidence_files[e].sha256

\* C30: once the signed-in user has been disabled, no step of that session
\* writes to the vault or administers users under that user's identity.
DisableEndsOpenSession ==
    [][(/\ LoggedIn
        /\ users[auth_user.id].is_active = 0
        /\ auth_user' = auth_user)
       => (catalog' = catalog /\ users' = users)]_vars

====
